---- MODULE Spec2Model ----
(***************************************************************************)
(* Model of app.py (angsc1118/checkTech): a Streamlit page that labels      *)
(* each trading day of a short date window with one of twelve technical    *)
(* scenarios.  Every run of main() is one action: a widget change reruns   *)
(* the script with run_btn = False, a click reruns it with run_btn = True  *)
(* and, if the window passes validation, executes analyze_stock in full.   *)
(*                                                                         *)
(* Numbers.  The float columns of the DataFrame are fixed-point values: a  *)
(* present number x is [nan |-> FALSE, v |-> x * Scale], an absent one is  *)
(* NaN.  Scale is the least common multiple of the four window lengths, so *)
(* every rolling mean of integer prices is exact.  Comparisons follow      *)
(* IEEE/pandas: any ordering comparison with NaN is False.                 *)
(***************************************************************************)
EXTENDS Integers, Sequences, FiniteSets, TLC

VARIABLES ticker, start_input, end_input, run_btn, outcome, calls, df, target_df, results

vars == <<ticker, start_input, end_input, run_btn, outcome, calls, df, target_df, results>>

(* ---------------- bounds of the modelled environment ------------------- *)
Today == 140          \* the day st.date_input shows by default (day 1 is a Monday)
DateSpan == 11        \* the user picks dates in Today-DateSpan .. Today
BasePrice == 2000     \* close of every modelled ticker on its listing day
Drift == 2            \* absolute price change per calendar day of a trending leg
TurnAge == 20         \* the trend of a ticker may change TurnAge days before Today

(* ---------------- program constants ------------------------------------ *)
MA5Window == 5
MA10Window == 10
MA20Window == 20
MA60Window == 60
LookbackDays == 120
MaxDateDiff == 10
SlopeThresholdNum == 5        \* 0.0005 = 5 / 10000
SlopeThresholdDen == 10000

Scale == MA60Window           \* lcm(5, 10, 20, 60)

(* ---------------- float values ----------------------------------------- *)
NaN == [nan |-> TRUE, v |-> 0]
Num(x) == [nan |-> FALSE, v |-> x]
Gt(a, b) == ~a.nan /\ ~b.nan /\ a.v > b.v
Lt(a, b) == ~a.nan /\ ~b.nan /\ a.v < b.v
Sub(a, b) == IF a.nan \/ b.nan THEN NaN ELSE Num(a.v - b.v)

Min(a, b) == IF a < b THEN a ELSE b
Max(a, b) == IF a > b THEN a ELSE b
Neg(a) == IF a.nan THEN NaN ELSE Num(-a.v)

(* ---------------- the market behind yf.download ------------------------ *)
\* Days are integers; day 1 is a Monday and the exchange is closed on
\* Saturdays and Sundays.
IsTradingDay(d) == (d % 7) \in 1..5

TurnDay == Today - TurnAge

\* A ticker is listed on day `listed`; its close moves d1 per calendar day up
\* to TurnDay and d2 per calendar day after it.  `raises` marks a symbol for
\* which the download throws.
Tickers ==
  [listed : {1, Today - 90, Today - 30, Today + 1},
   d1 : {-Drift, 0, Drift}, d2 : {-Drift, 0, Drift}, raises : {FALSE}]
  \cup {[listed |-> 1, d1 |-> 0, d2 |-> 0, raises |-> TRUE]}

DefaultTicker == [listed |-> 1, d1 |-> 0, d2 |-> 0, raises |-> FALSE]

ClosePrice(t, d) ==
  BasePrice + t.d1 * (Min(d, TurnDay) - Min(t.listed, TurnDay))
            + t.d2 * (Max(d, TurnDay) - Max(t.listed, TurnDay))

\* yf.download(ticker, start, end): the bars with start <= date < end.
Download(t, start, end) ==
  LET days == [i \in 1..(end - start) |-> start + i - 1]
      HasBar(d) == IsTradingDay(d) /\ d >= t.listed
      open == SelectSeq(days, HasBar)
  IN [i \in 1..Len(open) |-> [date |-> open[i], Close |-> Num(ClosePrice(t, open[i]) * Scale)]]

(* ---------------- step 4: indicators ----------------------------------- *)
\* Series.rolling(window).mean() with the default min_periods = window: the
\* mean of the last `window` closes, absent (NaN) on the first window - 1
\* rows.  The window sum is taken as a difference of running totals.
RECURSIVE RunningTotals(_)
RunningTotals(xs) ==
  IF Len(xs) <= 1 THEN xs
  ELSE LET h == Len(xs) \div 2
           left == RunningTotals(SubSeq(xs, 1, h))
           right == RunningTotals(SubSeq(xs, h + 1, Len(xs)))
       IN left \o [i \in 1..Len(right) |-> right[i] + left[h]]

\* Variant: rolling(window, min_periods=1), the mean of whatever rows exist.
RollingMean_min_periods_1(closes, window) ==
  LET totals == RunningTotals([i \in 1..Len(closes) |-> closes[i].v])
  IN [i \in 1..Len(closes) |->
        IF i < window THEN Num(totals[i] \div i)
        ELSE Num((totals[i] - (IF i > window THEN totals[i - window] ELSE 0)) \div window)]

RollingMean(closes, window) ==
  LET totals == RunningTotals([i \in 1..Len(closes) |-> closes[i].v])
  IN [i \in 1..Len(closes) |->
        IF i < window THEN NaN
        ELSE Num((totals[i] - (IF i > window THEN totals[i - window] ELSE 0)) \div window)]

\* Series.diff(): value minus the previous row's value, NaN on the first row.
Diff(col) == [i \in 1..Len(col) |-> IF i = 1 THEN NaN ELSE Sub(col[i], col[i - 1])]

PrepareIndicators(bars) ==
  LET closes == [i \in 1..Len(bars) |-> bars[i].Close]
      ma5 == RollingMean(closes, MA5Window)
      ma10 == RollingMean(closes, MA10Window)
      ma20 == RollingMean(closes, MA20Window)
      ma60 == RollingMean(closes, MA60Window)
      slope == Diff(ma20)
  IN [i \in 1..Len(bars) |->
        [date |-> bars[i].date, Close |-> closes[i],
         MA5 |-> ma5[i], MA10 |-> ma10[i], MA20 |-> ma20[i], MA60 |-> ma60[i],
         MA20_Slope_Val |-> slope[i]]]

(* ---------------- step 5: the requested interval ----------------------- *)
\* Variant: the end of the interval is exclusive.
Mask_exclusive_end(frame, start_date, end_date) ==
  LET InRange(row) == row.date >= start_date /\ row.date < end_date
  IN SelectSeq(frame, InRange)

Mask(frame, start_date, end_date) ==
  LET InRange(row) == row.date >= start_date /\ row.date <= end_date
  IN SelectSeq(frame, InRange)
(* ---------------- the 12 scenarios ------------------------------------- *)
\* Labels: slope "Up" / "Flat" / "Down", position "Above" / "Below",
\* alignment "Bullish" / "None" stand for the source's Chinese labels.
scenarios ==
  (<<"Up", "Above", "Bullish">> :> [sid |-> 1, tag |-> "bull"]) @@
  (<<"Up", "Above", "None">> :> [sid |-> 2, tag |-> "choppy bull"]) @@
  (<<"Up", "Below", "Bullish">> :> [sid |-> 3, tag |-> "bull pullback"]) @@
  (<<"Up", "Below", "None">> :> [sid |-> 4, tag |-> "weakening"]) @@
  (<<"Flat", "Above", "Bullish">> :> [sid |-> 5, tag |-> "coiling"]) @@
  (<<"Flat", "Above", "None">> :> [sid |-> 6, tag |-> "range watch"]) @@
  (<<"Flat", "Below", "Bullish">> :> [sid |-> 7, tag |-> "watch support"]) @@
  (<<"Flat", "Below", "None">> :> [sid |-> 8, tag |-> "range bear"]) @@
  (<<"Down", "Above", "Bullish">> :> [sid |-> 9, tag |-> "special"]) @@
  (<<"Down", "Above", "None">> :> [sid |-> 10, tag |-> "bear rally"]) @@
  (<<"Down", "Below", "Bullish">> :> [sid |-> 11, tag |-> "special"]) @@
  (<<"Down", "Below", "None">> :> [sid |-> 12, tag |-> "absolute bear"])

\* Variant: the key is built with position and slope exchanged.
get_scenario_analysis_swapped_key(slope, position, alignment) ==
  LET key == <<position, slope, alignment>>
  IN IF key \in DOMAIN scenarios THEN scenarios[key] ELSE [sid |-> 0, tag |-> "unknown"]

get_scenario_analysis(slope, position, alignment) ==
  LET key == <<slope, position, alignment>>
  IN IF key \in DOMAIN scenarios THEN scenarios[key] ELSE [sid |-> 0, tag |-> "unknown"]

(* ---------------- step 6: one row of the loop -------------------------- *)
\* slope_threshold = ma20 * 0.0005, kept exact in units of
\* 1 / (Scale * SlopeThresholdDen); Fine() brings slope_val to that unit.
Fine(a) == IF a.nan THEN NaN ELSE Num(a.v * SlopeThresholdDen)

\* Variant: the threshold itself already counts as a bend (>= and <=).
SlopeStatus_inclusive(slope_val, ma20) ==
  LET slope_threshold == IF ma20.nan THEN NaN ELSE Num(ma20.v * SlopeThresholdNum)
  IN IF ~Lt(Fine(slope_val), slope_threshold) /\ ~slope_val.nan /\ ~ma20.nan THEN "Up"
     ELSE IF ~Gt(Fine(slope_val), Neg(slope_threshold)) /\ ~slope_val.nan /\ ~ma20.nan
          THEN "Down"
     ELSE "Flat"

SlopeStatus(slope_val, ma20) ==
  LET slope_threshold == IF ma20.nan THEN NaN ELSE Num(ma20.v * SlopeThresholdNum)
  IN IF Gt(Fine(slope_val), slope_threshold) THEN "Up"
     ELSE IF Lt(Fine(slope_val), Neg(slope_threshold)) THEN "Down"
     ELSE "Flat"

\* Variant: close >= ma20 counts as above.
PosStatus_inclusive(close, ma20) ==
  IF Gt(close, ma20) \/ (~close.nan /\ ~ma20.nan /\ close.v = ma20.v) THEN "Above" ELSE "Below"

PosStatus(close, ma20) == IF Gt(close, ma20) THEN "Above" ELSE "Below"

\* Variant: the quarter line is only required not to be above the month line
\* (not (ma60 > ma20)), which a missing MA60 satisfies.
AlignStatus_lenient(ma5, ma10, ma20, ma60) ==
  IF Gt(ma5, ma10) /\ Gt(ma10, ma20) /\ ~Gt(ma60, ma20) THEN "Bullish" ELSE "None"

\* Variant: the ordering is not strict (>=).
AlignStatus_nonstrict(ma5, ma10, ma20, ma60) ==
  IF ~Lt(ma5, ma10) /\ ~Lt(ma10, ma20) /\ ~Lt(ma20, ma60)
     /\ ~ma5.nan /\ ~ma10.nan /\ ~ma20.nan /\ ~ma60.nan
  THEN "Bullish" ELSE "None"

AlignStatus(ma5, ma10, ma20, ma60) ==
  IF Gt(ma5, ma10) /\ Gt(ma10, ma20) /\ Gt(ma20, ma60) THEN "Bullish" ELSE "None"

ClassifyRow(row) ==
  LET slope_status == SlopeStatus(row.MA20_Slope_Val, row.MA20)
      pos_status == PosStatus(row.Close, row.MA20)
      align_status == AlignStatus(row.MA5, row.MA10, row.MA20, row.MA60)
      rec == get_scenario_analysis(slope_status, pos_status, align_status)
  IN [date |-> row.date, close |-> row.Close, tag |-> rec.tag, sid |-> rec.sid,
      slope |-> slope_status, position |-> pos_status, alignment |-> align_status]

ClassifyRows(frame) == [i \in 1..Len(frame) |-> ClassifyRow(frame[i])]

(* ---------------- analyze_stock ---------------------------------------- *)
\* The value of one call: what the page shows and the frames it built.
analyze_stock(t, start_date, end_date) ==
  IF t.raises
  THEN [outcome |-> "exception", df |-> <<>>, target_df |-> <<>>, results |-> <<>>]
  ELSE
    LET fetch_start == start_date - LookbackDays
        bars == Download(t, fetch_start, end_date + 1)
        frame == PrepareIndicators(bars)
        target == Mask(frame, start_date, end_date)
    IN IF bars = <<>>
       THEN [outcome |-> "not_found", df |-> <<>>, target_df |-> <<>>, results |-> <<>>]
       ELSE IF target = <<>>
       THEN [outcome |-> "no_trading_data", df |-> frame, target_df |-> <<>>,
             results |-> <<>>]
       ELSE [outcome |-> "shown", df |-> frame, target_df |-> target,
             results |-> ClassifyRows(target)]

(* ---------------- main ------------------------------------------------- *)
\* The branch main() takes on a click, from date_diff alone.
\* Variant: a window of exactly MaxDateDiff days is already too long.
ValidateWindow_inclusive(date_diff) ==
  IF date_diff >= MaxDateDiff THEN "too_long"
  ELSE IF date_diff < 0 THEN "bad_order"
  ELSE "analyze"

ValidateWindow(date_diff) ==
  IF date_diff > MaxDateDiff THEN "too_long"
  ELSE IF date_diff < 0 THEN "bad_order"
  ELSE "analyze"

\* One run of the script with the widgets at (t, s, e) and the button at btn.
Main(t, s, e, btn) ==
  LET date_diff == e - s
      branch == IF btn THEN ValidateWindow(date_diff) ELSE "idle"
  IN /\ ticker' = t
     /\ start_input' = s
     /\ end_input' = e
     /\ run_btn' = btn
     /\ IF branch = "analyze"
        THEN LET r == analyze_stock(t, s, e)
             IN /\ calls' = 1
                /\ outcome' = r.outcome
                /\ df' = r.df
                /\ target_df' = r.target_df
                /\ results' = r.results
        ELSE /\ calls' = 0
             /\ outcome' = branch
             /\ df' = <<>>
             /\ target_df' = <<>>
             /\ results' = <<>>

DateChoices == (Today - DateSpan)..Today

Init ==
  /\ ticker = DefaultTicker
  /\ start_input = Today
  /\ end_input = Today
  /\ run_btn = FALSE
  /\ outcome = "idle"
  /\ calls = 0
  /\ df = <<>>
  /\ target_df = <<>>
  /\ results = <<>>

ChangeTicker == \E t \in Tickers : t # ticker /\ Main(t, start_input, end_input, FALSE)
ChangeStart == \E d \in DateChoices : d # start_input /\ Main(ticker, d, end_input, FALSE)
ChangeEnd == \E d \in DateChoices : d # end_input /\ Main(ticker, start_input, d, FALSE)
ClickRun == Main(ticker, start_input, end_input, TRUE)

Next == ChangeTicker \/ ChangeStart \/ ChangeEnd \/ ClickRun

Spec == Init /\ [][Next]_vars
(* ---------------- the classifier on its own ---------------------------- *)
\* A second specification for the pure part of step 6: one indicator row is
\* drawn from a bounded set and the loop body is applied to it.  Values are
\* in units of 1 / SlopeThresholdDen, so 100 is 100 * SlopeThresholdDen and a
\* slope of 0.0501 is 501.  `depth` is the number of bars of history up to
\* the row; it decides which columns are present, as in step 4.
Hundred == 100 * SlopeThresholdDen

IndicatorRow(depth, ma20, oc, o5, o10, o60, slope) ==
  [date |-> Today,
   Close |-> Num(ma20 + oc),
   MA5 |-> IF depth >= MA5Window THEN Num(ma20 + o5) ELSE NaN,
   MA10 |-> IF depth >= MA10Window THEN Num(ma20 + o10) ELSE NaN,
   MA20 |-> IF depth >= MA20Window THEN Num(ma20) ELSE NaN,
   MA60 |-> IF depth >= MA60Window THEN Num(ma20 + o60) ELSE NaN,
   MA20_Slope_Val |-> IF depth > MA20Window THEN Num(slope) ELSE NaN]

Depths == {1, MA5Window, MA10Window, MA20Window, MA20Window + 1, MA60Window}

IndicatorRows ==
  {IndicatorRow(depth, ma20, oc, o5, o10, o60, slope) :
     depth \in Depths, ma20 \in {Hundred, 2 * Hundred}, oc \in {-1, 0, 1},
     o5 \in {-1, 0, 1, 2}, o10 \in {-1, 0, 1}, o60 \in {-1, 0, 1},
     slope \in {-1001, -1000, -501, -500, 0, 500, 501, 1000, 1001}}

InitClassify ==
  /\ ticker = DefaultTicker
  /\ start_input = Today
  /\ end_input = Today
  /\ run_btn = TRUE
  /\ outcome = "idle"
  /\ calls = 1
  /\ df = <<>>
  /\ target_df \in {<<row>> : row \in IndicatorRows}
  /\ results = <<>>

ClassifyStep ==
  /\ results = <<>>
  /\ results' = ClassifyRows(target_df)
  /\ outcome' = "shown"
  /\ UNCHANGED <<ticker, start_input, end_input, run_btn, calls, df, target_df>>

NextClassify == ClassifyStep

SpecClassify == InitClassify /\ [][NextClassify]_vars
(* ======================= properties ==================================== *)
Rows == 1..Len(results)

SlopeLabels == {"Up", "Flat", "Down"}
PositionLabels == {"Above", "Below"}
AlignmentLabels == {"Bullish", "None"}

\* The id the decision table of the specification gives a combination.
TableId(slope, position, alignment) ==
  4 * (CASE slope = "Up" -> 0 [] slope = "Flat" -> 1 [] slope = "Down" -> 2)
  + 2 * (IF position = "Above" THEN 0 ELSE 1)
  + (IF alignment = "Bullish" THEN 0 ELSE 1) + 1

\* C1: each of the 12 combinations of slope, position and alignment gets the
\* scenario id of the decision table (1..12 in table order), the ids are
\* pairwise distinct and none is 0; every classified row carries the id of
\* its own three labels.
C1_DecisionTable ==
  /\ \A sl \in SlopeLabels, po \in PositionLabels, al \in AlignmentLabels :
       /\ get_scenario_analysis(sl, po, al).sid = TableId(sl, po, al)
       /\ get_scenario_analysis(sl, po, al).sid # 0
       /\ \A sl2 \in SlopeLabels, po2 \in PositionLabels, al2 \in AlignmentLabels :
            <<sl, po, al>> # <<sl2, po2, al2>>
              => get_scenario_analysis(sl, po, al).sid # get_scenario_analysis(sl2, po2, al2).sid
  /\ \A i \in Rows :
       /\ results[i].slope \in SlopeLabels
       /\ results[i].position \in PositionLabels
       /\ results[i].alignment \in AlignmentLabels
       /\ results[i].sid = TableId(results[i].slope, results[i].position, results[i].alignment)

\* A row classified Down / Below / Bullish, one of the "contradictory" cells.
C1_Witness ==
  \E i \in Rows :
    /\ results[i].slope = "Down" /\ results[i].position = "Below"
    /\ results[i].alignment = "Bullish" /\ results[i].sid = 11

\* C4: with MA20 and MA20Slope present and MA20 > 0, the slope is Up exactly
\* when MA20Slope > MA20 * 0.0005, Down exactly when MA20Slope < -(MA20 *
\* 0.0005), Flat otherwise; a slope equal to +threshold or -threshold is Flat
\* (MA20 = 100: 0.05 Flat, 0.0501 Up, -0.0501 Down); Up and Down exclude
\* each other.
C4_SlopeDirection ==
  \A i \in Rows :
    LET ma20 == target_df[i].MA20
        sv == target_df[i].MA20_Slope_Val
        up == sv.v * SlopeThresholdDen > ma20.v * SlopeThresholdNum
        down == sv.v * SlopeThresholdDen < -(ma20.v * SlopeThresholdNum)
    IN (~ma20.nan /\ ~sv.nan /\ ma20.v > 0) =>
         /\ (results[i].slope = "Up") <=> up
         /\ (results[i].slope = "Down") <=> down
         /\ (results[i].slope = "Flat") <=> (~up /\ ~down)
         /\ ~(up /\ down)
         /\ (sv.v * SlopeThresholdDen = ma20.v * SlopeThresholdNum) => results[i].slope = "Flat"
         /\ (sv.v * SlopeThresholdDen = -(ma20.v * SlopeThresholdNum))
              => results[i].slope = "Flat"
         /\ (ma20.v = Hundred /\ sv.v = 500) => results[i].slope = "Flat"
         /\ (ma20.v = Hundred /\ sv.v = 501) => results[i].slope = "Up"
         /\ (ma20.v = Hundred /\ sv.v = -501) => results[i].slope = "Down"

\* MA20 = 100 and a slope of exactly 0.05, classified Flat.
C4_Witness ==
  \E i \in Rows :
    /\ target_df[i].MA20 = Num(Hundred)
    /\ target_df[i].MA20_Slope_Val = Num(500)
    /\ results[i].slope = "Flat"

\* C5: alignment is Bullish exactly when MA5 > MA10 > MA20 > MA60 strictly
\* with all four present; an equality between neighbours gives None, and so
\* does an absent MA60 whatever the other averages are.
C5_Alignment ==
  \A i \in Rows :
    LET r == target_df[i]
        present == ~r.MA5.nan /\ ~r.MA10.nan /\ ~r.MA20.nan /\ ~r.MA60.nan
    IN /\ (results[i].alignment = "Bullish")
            <=> (present /\ r.MA5.v > r.MA10.v /\ r.MA10.v > r.MA20.v /\ r.MA20.v > r.MA60.v)
       /\ (results[i].alignment # "Bullish") => results[i].alignment = "None"
       /\ r.MA60.nan => results[i].alignment = "None"
       /\ (present /\ (r.MA5.v = r.MA10.v \/ r.MA10.v = r.MA20.v \/ r.MA20.v = r.MA60.v))
            => results[i].alignment = "None"

\* MA60 is absent, the three shorter averages are strictly ordered, and the
\* row is classified None.
C5_Witness ==
  \E i \in Rows :
    LET r == target_df[i]
    IN /\ r.MA60.nan /\ ~r.MA5.nan /\ ~r.MA10.nan /\ ~r.MA20.nan
       /\ r.MA5.v > r.MA10.v /\ r.MA10.v > r.MA20.v
       /\ results[i].alignment = "None"

\* C6: the position is Above exactly when close > MA20 and Below otherwise;
\* close = MA20 is Below.
C6_PricePosition ==
  \A i \in Rows :
    LET r == target_df[i]
    IN /\ (results[i].position = "Above") <=> (~r.Close.nan /\ ~r.MA20.nan /\ r.Close.v > r.MA20.v)
       /\ (results[i].position # "Above") => results[i].position = "Below"
       /\ r.Close = r.MA20 => results[i].position = "Below"

\* A row whose close equals its MA20, classified Below.
C6_Witness ==
  \E i \in Rows :
    /\ ~target_df[i].MA20.nan
    /\ target_df[i].Close = target_df[i].MA20
    /\ results[i].position = "Below"
(* ---------------- properties of the whole page ------------------------- *)
date_diff == end_input - start_input

\* Number of bars of the fetched history up to and including day d.
HistoryDepth(d) == Cardinality({j \in 1..Len(df) : df[j].date <= d})

\* C3: a click with end < start or end - start > 10 days is rejected with a
\* validation error and analyze_stock is not invoked (no download, no
\* indicators, no rows); a click with 0 <= end - start <= 10 reaches
\* analyze_stock exactly once.
C3_WindowPolicy ==
  run_btn =>
    /\ (date_diff < 0 \/ date_diff > 10) =>
         /\ outcome \in {"too_long", "bad_order"}
         /\ (outcome = "bad_order") <=> (date_diff < 0)
         /\ calls = 0 /\ df = <<>> /\ target_df = <<>> /\ results = <<>>
    /\ (date_diff >= 0 /\ date_diff <= 10) =>
         /\ calls = 1
         /\ outcome \in {"shown", "no_trading_data", "not_found", "exception"}

\* A click on a window of 11 days, rejected as too long.
C3_Witness == run_btn /\ date_diff = 11 /\ outcome = "too_long" /\ calls = 0

\* C7: for an accepted request there is exactly one result row per bar of
\* the fetched history dated within [start, end] (both ends included), none
\* for a bar outside, in the order of the bars; the rows are the trading
\* days of the interval; with no bar in the interval there are no rows and
\* the page reports "no data" (not found / no trading data), not an error.
C7_RowsOfInterval ==
  (run_btn /\ calls = 1 /\ ~ticker.raises) =>
    LET Inside(row) == start_input <= row.date /\ row.date <= end_input
        inside == SelectSeq(df, Inside)
    IN /\ Len(results) = Len(inside)
       /\ \A i \in Rows : results[i].date = inside[i].date /\ results[i].close = inside[i].Close
       /\ \A i \in Rows : \A j \in Rows : i < j => results[i].date < results[j].date
       /\ {results[i].date : i \in Rows}
            = {d \in start_input..end_input : IsTradingDay(d) /\ d >= ticker.listed}
       /\ (inside = <<>>) => (results = <<>> /\ outcome \in {"no_trading_data", "not_found"})
       /\ (inside # <<>>) => outcome = "shown"
       /\ outcome # "exception"

\* A shown window that spans a weekend: fewer rows than calendar days, the
\* first and the last day of the interval both present.
C7_Witness ==
  /\ outcome = "shown"
  /\ Len(results) >= 2
  /\ Len(results) < date_diff + 1
  /\ results[1].date = start_input
  /\ results[Len(results)].date = end_input
  /\ Len(df) > Len(results)

\* Sum of the closes of rows lo..hi of the fetched frame.
RECURSIVE CloseSum(_, _)
CloseSum(lo, hi) ==
  IF lo = hi THEN df[lo].Close.v
  ELSE LET mid == (lo + hi) \div 2 IN CloseSum(lo, mid) + CloseSum(mid + 1, hi)

\* Column value m of row i is the mean of the last n closes, absent before row n.
IsTrailingMean(m, i, n) ==
  /\ m.nan <=> i < n
  /\ m.nan => m = NaN
  /\ i >= n => m.v * n = CloseSum(i - n + 1, i)

\* C8: the prepared frame has one row per downloaded bar, in order; MA_N at
\* row i is present exactly when i >= N and is then the mean of closes
\* i-N+1..i; MA20Slope is present exactly from row 21 on and is then
\* MA20(i) - MA20(i-1); an absent value is NaN, never a number.
C8_Indicators ==
  (df # <<>>) =>
    LET fetched == Download(ticker, start_input - LookbackDays, end_input + 1)
    IN /\ Len(df) = Len(fetched)
       /\ \A i \in 1..Len(df) :
            /\ df[i].date = fetched[i].date
            /\ df[i].Close = fetched[i].Close
            /\ IsTrailingMean(df[i].MA5, i, 5)
            /\ IsTrailingMean(df[i].MA10, i, 10)
            /\ IsTrailingMean(df[i].MA20, i, 20)
            /\ IsTrailingMean(df[i].MA60, i, 60)
            /\ df[i].MA20_Slope_Val.nan <=> i < 21
            /\ df[i].MA20_Slope_Val.nan <=> (i = 1 \/ df[i].MA20.nan \/ df[Max(i - 1, 1)].MA20.nan)
            /\ df[i].MA20_Slope_Val.nan => df[i].MA20_Slope_Val = NaN
            /\ i >= 21 => df[i].MA20_Slope_Val.v = df[i].MA20.v - df[i - 1].MA20.v

\* A frame long enough to have MA60, with a moving price and absent values
\* at its start.
C8_Witness ==
  /\ Len(df) > 60
  /\ df[1].MA5 = NaN
  /\ ~df[61].MA60.nan
  /\ df[61].MA60 # df[60].MA60
  /\ df[61].MA20_Slope_Val.v # 0

\* C9: on a series whose close never changes, every classified bar with at
\* least 60 bars of history has slope 0 (Flat), close = MA20 (Below), four
\* equal averages (None), and scenario id 8.
C9_ConstantSeries ==
  (outcome = "shown" /\ ticker.d1 = 0 /\ ticker.d2 = 0) =>
    \A i \in Rows :
      LET r == target_df[i]
      IN HistoryDepth(r.date) >= 60 =>
           /\ r.MA20_Slope_Val = Num(0)
           /\ r.Close = r.MA20
           /\ r.MA5 = r.MA10 /\ r.MA10 = r.MA20 /\ r.MA20 = r.MA60 /\ ~r.MA60.nan
           /\ results[i].slope = "Flat"
           /\ results[i].position = "Below"
           /\ results[i].alignment = "None"
           /\ results[i].sid = 8

\* A constant series with 60 bars of history behind a classified bar.
C9_Witness ==
  /\ outcome = "shown" /\ ticker.d1 = 0 /\ ticker.d2 = 0
  /\ \E i \in Rows :
       /\ HistoryDepth(target_df[i].date) >= 60
       /\ target_df[i].MA60 = Num(BasePrice * Scale)
       /\ results[i].sid = 8

\* C2: a bar whose MA20 or MA20Slope is absent never gets a result row with
\* a scenario id in 1..12 (the classification fails loudly instead).
C2_FailsLoudly ==
  \A i \in Rows :
    (target_df[i].MA20.nan \/ target_df[i].MA20_Slope_Val.nan) => results[i].sid \notin 1..12

\* C10: whenever rows are classified, the fetched history holds at least 60
\* bars up to and including the first bar of the interval, so MA60, MA20
\* and MA20Slope are present on every classified bar.
C10_LeadIn ==
  (outcome = "shown") =>
    /\ HistoryDepth(target_df[1].date) >= 60
    /\ \A i \in 1..Len(target_df) :
         /\ ~target_df[i].MA60.nan
         /\ ~target_df[i].MA20.nan
         /\ ~target_df[i].MA20_Slope_Val.nan
====
